---- MODULE Spec2Model ----
(***************************************************************************)
(* A model of evremap's remapping engine: the Machine of                   *)
(* src/remapper/machine.rs and the resolution functions of                 *)
(* src/remapper/event_logic.rs.                                            *)
(*                                                                         *)
(* A HashSet<KeyCode> is a set; iterating one (collect, iter().map) yields *)
(* its elements in an order the program does not control, so every such    *)
(* iteration is modelled as the choice of any enumeration of the set.      *)
(***************************************************************************)
EXTENDS Integers, Sequences, FiniteSets

(* ---------------------------------------------------------------------- *)
(* Bounds of the model                                                     *)
(* ---------------------------------------------------------------------- *)

\* Longest rule list (Vec<Mapping>) a Machine is built with.
MaxRules == 2

\* Longest recorded run of insert calls in SpecTrace.
MaxTrace == 4

\* The key codes of the model: a modifier and three ordinary keys.
Keys == {"KEY_LEFTCTRL", "KEY_A", "KEY_B", "KEY_C"}

\* The timestamps of the model (TimeVal), as seconds.
Times == {100, 200}

\* Raw values carried by the Unknown events of the model.
UnknownValues == {5}

\* The raw values (i32) of the key events that are converted in
\* SpecConvert: the named ones, their neighbours and the two ends of the
\* range.
I32Max == 2147483647
I32Min == -I32Max - 1

I32Values ==
    {I32Min, I32Min + 1, -3, -2, -1, 0, 1, 2, 3, 4, 5, 255, I32Max - 1, I32Max}

(* ---------------------------------------------------------------------- *)
(* types.rs                                                                *)
(* ---------------------------------------------------------------------- *)

\* enum KeyEventType { Release, Press, Repeat, Unknown(i32) }: a tag and,
\* for Unknown, the payload (0 for the variants that carry none).
Release == [tag |-> "Release", n |-> 0]
Press == [tag |-> "Press", n |-> 0]
Repeat == [tag |-> "Repeat", n |-> 0]
Unknown(n) == [tag |-> "Unknown", n |-> n]

KeyEventType == {Release, Press, Repeat} \cup {Unknown(n) : n \in UnknownValues}

\* Mutant of from_value: the raw values of Release and Press are swapped.
from_value_swapped(value_) ==
    CASE value_ = 0 -> Press
      [] value_ = 1 -> Release
      [] value_ = 2 -> Repeat
      [] OTHER -> Unknown(value_)

\* KeyEventType::from_value
from_value(value_) ==
    CASE value_ = 0 -> Release
      [] value_ = 1 -> Press
      [] value_ = 2 -> Repeat
      [] OTHER -> Unknown(value_)

\* KeyEventType::value
value(self) ==
    CASE self.tag = "Release" -> 0
      [] self.tag = "Press" -> 1
      [] self.tag = "Repeat" -> 2
      [] OTHER -> self.n

\* struct EvKeyEvent { time, ev_key, key_event_type }
EvKeyEvent(time, ev_key, key_event_type) ==
    [time |-> time, ev_key |-> ev_key, key_event_type |-> key_event_type]

(* ---------------------------------------------------------------------- *)
(* mapping.rs                                                              *)
(* ---------------------------------------------------------------------- *)

\* Mapping::Remap { input, output }
Remap(input, output) == [input |-> input, output |-> output]

(* ---------------------------------------------------------------------- *)
(* event_logic.rs                                                          *)
(* ---------------------------------------------------------------------- *)

is_modifier(key) ==
    key \in {"KEY_FN", "KEY_LEFTALT", "KEY_RIGHTALT", "KEY_LEFTMETA",
             "KEY_RIGHTMETA", "KEY_LEFTCTRL", "KEY_RIGHTCTRL",
             "KEY_LEFTSHIFT", "KEY_RIGHTSHIFT"}

\* Mutant of modifiers_first: modifiers ordered behind the other keys.
modifiers_first_swapped(a, b) ==
    IF is_modifier(a)
    THEN (IF is_modifier(b) THEN "Equal" ELSE "Greater")
    ELSE IF is_modifier(b) THEN "Less" ELSE "Equal"

\* Orders modifier keys ahead of non-modifier keys.
modifiers_first(a, b) ==
    IF is_modifier(a)
    THEN (IF is_modifier(b) THEN "Equal" ELSE "Less")
    ELSE IF is_modifier(b) THEN "Greater" ELSE "Equal"

\* Ordering::reverse
reverse(o) ==
    CASE o = "Less" -> "Greater"
      [] o = "Greater" -> "Less"
      [] OTHER -> "Equal"

\* Mutant of modifiers_last: the reverse is forgotten.
modifiers_last_unreversed(a, b) == modifiers_first(a, b)

modifiers_last(a, b) == reverse(modifiers_first(a, b))

\* The two comparators as they are passed to sort_by.
by_modifiers_first == [a \in Keys, b \in Keys |-> modifiers_first(a, b)]
by_modifiers_last == [a \in Keys, b \in Keys |-> modifiers_last(a, b)]

\* One step of a stable sort: x, which came after every element of the
\* sorted prefix v, goes before the first element that compares Greater
\* than it and after everything else.
insert_sorted(v, x, compare) ==
    LET greater == {i \in 1..Len(v) : compare[v[i], x] = "Greater"}
        at == IF greater = {} THEN Len(v) + 1
              ELSE CHOOSE i \in greater : \A j \in greater : i <= j
    IN  SubSeq(v, 1, at - 1) \o <<x>> \o SubSeq(v, at, Len(v))

\* Vec::sort_by: a stable sort by the comparator, given as a function on
\* pairs of keys; prefix[k] is the first k elements of v, sorted.
sort_by(v, compare) ==
    LET prefix[k \in 0..Len(v)] ==
            IF k = 0 THEN <<>> ELSE insert_sorted(prefix[k - 1], v[k], compare)
    IN  prefix[Len(v)]

\* The orders in which iterating a HashSet can yield its elements.
RECURSIVE iter(_)
iter(set) ==
    IF set = {} THEN {<<>>}
    ELSE UNION {{<<x>> \o rest : rest \in iter(set \ {x})} : x \in set}

\* Mutant of apply_one: a rule that applies removes its modifiers too.
apply_one_removing_modifiers(rule, keys) ==
    IF rule.input \subseteq keys
    THEN (keys \ rule.input) \cup {o \in rule.output : ~is_modifier(o)}
    ELSE keys

\* Mutant of apply_one: the modifiers of the output are inserted too.
apply_one_inserting_modifiers(rule, keys) ==
    IF rule.input \subseteq keys
    THEN (keys \ {i \in rule.input : ~is_modifier(i)}) \cup rule.output
    ELSE keys

\* Mutant of apply_one: the input keys of a rule that applies are kept.
apply_one_keeping_input(rule, keys) ==
    IF rule.input \subseteq keys
    THEN keys \cup {o \in rule.output : ~is_modifier(o)}
    ELSE keys

\* Mutant of apply_one: a rule applies as soon as one of its input keys is
\* held.
apply_one_on_any_input(rule, keys) ==
    IF rule.input \cap keys # {}
    THEN (keys \ {i \in rule.input : ~is_modifier(i)})
         \cup {o \in rule.output : ~is_modifier(o)}
    ELSE keys

\* The body of the loop of apply_mapping_to_held_keys for one rule.
apply_one(rule, keys) ==
    IF rule.input \subseteq keys
    THEN (keys \ {i \in rule.input : ~is_modifier(i)})
         \cup {o \in rule.output : ~is_modifier(o)}
    ELSE keys

RECURSIVE apply_from(_, _, _)
apply_from(mappings_, idx, keys) ==
    IF idx > Len(mappings_) THEN keys
    ELSE apply_from(mappings_, idx + 1, apply_one(mappings_[idx], keys))

\* Mutant of apply_mapping_to_held_keys: every rule is matched against the
\* keys that are physically held, not against the keys so far.
apply_mapping_without_chaining(mappings_, currently_pressed_keys) ==
    LET keys[k \in 0..Len(mappings_)] ==
            IF k = 0 THEN currently_pressed_keys
            ELSE IF mappings_[k].input \subseteq currently_pressed_keys
                 THEN (keys[k - 1] \ {i \in mappings_[k].input : ~is_modifier(i)})
                      \cup {o \in mappings_[k].output : ~is_modifier(o)}
                 ELSE keys[k - 1]
    IN  keys[Len(mappings_)]

apply_mapping_to_held_keys(mappings_, currently_pressed_keys) ==
    apply_from(mappings_, 1, currently_pressed_keys)

\* v.iter().map(|ev_key| EvKeyEvent { time, ev_key, key_event_type }).
events_of(v, time, key_event_type) ==
    [i \in 1..Len(v) |-> EvKeyEvent(time, v[i], key_event_type)]

\* Mutant of compute_keys_based_on_state: every output key is released
\* before the desired keys are pressed.
compute_keys_releasing_all(mappings_, currently_pressed_keys, output_keys_, time) ==
    LET desired_keys == apply_mapping_to_held_keys(mappings_, currently_pressed_keys)
    IN  {events_of(sort_by(to_release, by_modifiers_last), time, Release)
           \o events_of(sort_by(to_press, by_modifiers_first), time, Press) :
         to_release \in iter(output_keys_),
         to_press \in iter(desired_keys)}

\* Mutant of compute_keys_based_on_state: every desired key is pressed,
\* held on the output already or not.
compute_keys_pressing_all_desired(mappings_, currently_pressed_keys, output_keys_, time) ==
    LET desired_keys == apply_mapping_to_held_keys(mappings_, currently_pressed_keys)
    IN  {events_of(sort_by(to_release, by_modifiers_last), time, Release)
           \o events_of(sort_by(to_press, by_modifiers_first), time, Press) :
         to_release \in iter(output_keys_ \ desired_keys),
         to_press \in iter(desired_keys)}

\* Mutant of compute_keys_based_on_state: nothing is released.
compute_keys_without_release(mappings_, currently_pressed_keys, output_keys_, time) ==
    LET desired_keys == apply_mapping_to_held_keys(mappings_, currently_pressed_keys)
    IN  {events_of(sort_by(to_press, by_modifiers_first), time, Press) :
         to_press \in iter(desired_keys \ output_keys_)}

\* The batches compute_keys_based_on_state can return: one for each order
\* in which the two set differences are collected.
compute_keys_based_on_state(mappings_, currently_pressed_keys, output_keys_, time) ==
    LET desired_keys == apply_mapping_to_held_keys(mappings_, currently_pressed_keys)
    IN  {events_of(sort_by(to_release, by_modifiers_last), time, Release)
           \o events_of(sort_by(to_press, by_modifiers_first), time, Press) :
         to_release \in iter(output_keys_ \ desired_keys),
         to_press \in iter(desired_keys \ output_keys_)}

\* The rule mappings.iter().find(..) stops at, as its index; 0 for None.
RECURSIVE find_from(_, _, _, _)
find_from(mappings_, idx, currently_pressed_keys, code) ==
    IF idx > Len(mappings_) THEN 0
    ELSE IF /\ code \in mappings_[idx].input
            /\ mappings_[idx].input \subseteq currently_pressed_keys
         THEN idx
         ELSE find_from(mappings_, idx + 1, currently_pressed_keys, code)

\* Mutant of lookup_mapping: the last rule that qualifies, not the first.
lookup_mapping_last_match(mappings_, currently_pressed_keys, code) ==
    LET qualifying == {i \in 1..Len(mappings_) :
                          /\ code \in mappings_[i].input
                          /\ mappings_[i].input \subseteq currently_pressed_keys}
    IN  IF qualifying = {} THEN 0
        ELSE CHOOSE i \in qualifying : \A j \in qualifying : j <= i

lookup_mapping(mappings_, currently_pressed_keys, code) ==
    find_from(mappings_, 1, currently_pressed_keys, code)

(* ---------------------------------------------------------------------- *)
(* machine.rs                                                              *)
(* ---------------------------------------------------------------------- *)

\* The Machine's fields, the argument and the result of its last insert,
\* the recorded run of insert calls (SpecTrace), and the argument and the
\* result of the last direct call of lookup_mapping (SpecPure).
VARIABLES input_state, output_keys, mappings,
          incoming_event, outgoing_events, trace, found

\* The result of the last direct call of apply_mapping_to_held_keys
\* (SpecPure).
VARIABLES desired_keys

\* The driver (SpecDriver): where run_forever is, the key codes enabled on
\* the input Device and on the UInputDevice, the raw event last read and
\* the events written to the output for it.
VARIABLES pc, input_device, output_device, raw_event, written

driver_vars == <<pc, input_device, output_device, raw_event, written>>

vars == <<input_state, output_keys, mappings,
          incoming_event, outgoing_events, trace, found, desired_keys,
          driver_vars>>

\* The rules a Machine of the model can be configured with.
Rules ==
    {Remap({"KEY_A"}, {"KEY_B"}),
     Remap({"KEY_A", "KEY_LEFTCTRL"}, {"KEY_B"}),
     Remap({"KEY_B"}, {"KEY_C"}),
     Remap({"KEY_LEFTCTRL"}, {"KEY_B", "KEY_C"}),
     Remap({"KEY_A"}, {"KEY_LEFTCTRL"})}

RuleLists == UNION {[1..n -> Rules] : n \in 0..MaxRules}

\* No insert and no lookup has been made yet.
NoEvent == EvKeyEvent(0, "NONE", [tag |-> "None", n |-> 0])
NotFound == [code |-> "NONE", rule |-> 0]
NotApplied == {"NONE"}

\* struct InputEvent { time, event_code, value } of evdev_rs, and the event
\* codes of the model: the keys, the synchronization marker and one more
\* code that is not a key.
InputEvent(time, event_code, value_) ==
    [time |-> time, event_code |-> event_code, value |-> value_]

EV_KEY(key) == [type |-> "EV_KEY", code |-> key]
SYN_REPORT == [type |-> "EV_SYN", code |-> "SYN_REPORT"]
MSC_SCAN == [type |-> "EV_MSC", code |-> "MSC_SCAN"]

NoInputEvent == InputEvent(0, [type |-> "NONE", code |-> "NONE"], 0)

\* EvKeyEvent::as_input_event
as_input_event(self) ==
    InputEvent(self.time, EV_KEY(self.ev_key), value(self.key_event_type))

\* run_forever has not been called.
DriverOff ==
    /\ pc = "off"
    /\ input_device = {}
    /\ output_device = {}
    /\ raw_event = NoInputEvent
    /\ written = <<>>

\* Machine::new
new(mappings_) ==
    /\ input_state = {}
    /\ mappings = mappings_
    /\ output_keys = {}

\* Mutant of get_keys_to_emit: a Repeat is passed through, rule or no rule.
get_keys_to_emit_repeat_passthrough(input_state_, output_keys_, mappings_, event) ==
    CASE event.key_event_type \in {Press, Release} ->
           compute_keys_based_on_state(mappings_, input_state_, output_keys_, event.time)
      [] OTHER -> {<<event>>}

\* Mutant of get_keys_to_emit: an Unknown event is looked up like a Repeat.
get_keys_to_emit_unknown_as_repeat(input_state_, output_keys_, mappings_, event) ==
    CASE event.key_event_type \in {Press, Release} ->
           compute_keys_based_on_state(mappings_, input_state_, output_keys_, event.time)
      [] OTHER ->
           LET rule == lookup_mapping(mappings_, input_state_, event.ev_key)
           IN  IF rule # 0
               THEN {events_of(output, event.time, Repeat) :
                     output \in iter(mappings_[rule].output)}
               ELSE {<<event>>}

\* The batches get_keys_to_emit can return for an event, given the fields.
get_keys_to_emit(input_state_, output_keys_, mappings_, event) ==
    CASE event.key_event_type \in {Press, Release} ->
           compute_keys_based_on_state(mappings_, input_state_, output_keys_, event.time)
      [] event.key_event_type = Repeat ->
           LET rule == lookup_mapping(mappings_, input_state_, event.ev_key)
           IN  IF rule # 0
               THEN {events_of(output, event.time, Repeat) :
                     output \in iter(mappings_[rule].output)}
               ELSE {<<event>>}
      [] OTHER -> {<<event>>}

\* Mutant of update_output_keys: a Release leaves its key in the set.
update_output_keys_keeping_released(output_keys_, events) ==
    output_keys_ \cup {events[k].ev_key : k \in {i \in 1..Len(events) :
                          events[i].key_event_type \in {Press, Repeat}}}

\* The loop of insert that updates output_keys from the outgoing events.
update_output_keys(output_keys_, events) ==
    LET after[k \in 0..Len(events)] ==
            IF k = 0 THEN output_keys_
            ELSE CASE events[k].key_event_type \in {Press, Repeat} ->
                        after[k - 1] \cup {events[k].ev_key}
                   [] events[k].key_event_type = Release ->
                        after[k - 1] \ {events[k].ev_key}
                   [] OTHER -> after[k - 1]
    IN  after[Len(events)]

\* Mutant of update_input_state: a Release leaves its key in the set.
update_input_state_keeping_released(input_state_, event) ==
    CASE event.key_event_type = Press -> input_state_ \cup {event.ev_key}
      [] OTHER -> input_state_

\* Mutant of update_input_state: a Repeat inserts its key like a Press.
update_input_state_on_repeat(input_state_, event) ==
    CASE event.key_event_type \in {Press, Repeat} -> input_state_ \cup {event.ev_key}
      [] event.key_event_type = Release -> input_state_ \ {event.ev_key}
      [] OTHER -> input_state_

\* The first match of insert: input_state after the incoming event.
update_input_state(input_state_, event) ==
    CASE event.key_event_type = Press -> input_state_ \cup {event.ev_key}
      [] event.key_event_type = Release -> input_state_ \ {event.ev_key}
      [] OTHER -> input_state_

\* Machine::insert
insert(event) ==
    \E events \in get_keys_to_emit(update_input_state(input_state, event),
                                   output_keys, mappings, event) :
        /\ input_state' = update_input_state(input_state, event)
        /\ output_keys' = update_output_keys(output_keys, events)
        /\ incoming_event' = event
        /\ outgoing_events' = events
        /\ UNCHANGED mappings

(* ---------------------------------------------------------------------- *)
(* Specifications                                                          *)
(* ---------------------------------------------------------------------- *)

\* A fresh Machine built with any rule list.
Init ==
    /\ \E mappings_ \in RuleLists : new(mappings_)
    /\ incoming_event = NoEvent
    /\ outgoing_events = <<>>
    /\ trace = <<>>
    /\ found = NotFound
    /\ desired_keys = NotApplied
    /\ DriverOff

InsertPress ==
    \E ev_key \in Keys, time \in Times :
        insert(EvKeyEvent(time, ev_key, Press))
        /\ UNCHANGED <<trace, found, desired_keys, driver_vars>>

InsertRelease ==
    \E ev_key \in Keys, time \in Times :
        insert(EvKeyEvent(time, ev_key, Release))
        /\ UNCHANGED <<trace, found, desired_keys, driver_vars>>

InsertRepeat ==
    \E ev_key \in Keys, time \in Times :
        insert(EvKeyEvent(time, ev_key, Repeat))
        /\ UNCHANGED <<trace, found, desired_keys, driver_vars>>

InsertUnknown ==
    \E ev_key \in Keys, time \in Times, n \in UnknownValues :
        insert(EvKeyEvent(time, ev_key, Unknown(n)))
        /\ UNCHANGED <<trace, found, desired_keys, driver_vars>>

\* Any sequence of events of the four kinds.
Next == InsertPress \/ InsertRelease \/ InsertRepeat \/ InsertUnknown

Spec == Init /\ [][Next]_vars

\* Sequences of Press and Release events only.
NextPressRelease == InsertPress \/ InsertRelease

SpecPressRelease == Init /\ [][NextPressRelease]_vars

\* The configurations of the tests of machine.rs that remap a key
\* (KEY_0 and KEY_1 of the tests are KEY_A and KEY_B here).
TestMappings ==
    {<<Remap({"KEY_A"}, {"KEY_B"})>>,
     <<Remap({"KEY_A", "KEY_LEFTCTRL"}, {"KEY_B"})>>}

TestKeys == {"KEY_LEFTCTRL", "KEY_A", "KEY_B"}

InitTrace ==
    /\ \E mappings_ \in TestMappings : new(mappings_)
    /\ incoming_event = NoEvent
    /\ outgoing_events = <<>>
    /\ trace = <<>>
    /\ found = NotFound
    /\ desired_keys = NotApplied
    /\ DriverOff

\* An insert whose argument and result are appended to the recorded run.
traced_insert(event) ==
    /\ Len(trace) < MaxTrace
    /\ insert(event)
    /\ trace' = Append(trace, [incoming |-> event, outgoing |-> outgoing_events'])
    /\ UNCHANGED <<found, desired_keys, driver_vars>>

TracePress ==
    \E ev_key \in TestKeys, time \in Times :
        traced_insert(EvKeyEvent(time, ev_key, Press))

TraceRelease ==
    \E ev_key \in TestKeys, time \in Times :
        traced_insert(EvKeyEvent(time, ev_key, Release))

NextTrace == TracePress \/ TraceRelease

\* Every run of at most MaxTrace Press and Release events from a fresh
\* Machine, recorded call by call.
SpecTrace == InitTrace /\ [][NextTrace]_vars

\* The rules of the lists the resolution functions are called with: those
\* of the Machines, two that rewrite the trigger key of another rule and
\* one with an empty input, which the configuration file can hold.
PureRules ==
    Rules \cup {Remap({"KEY_A"}, {"KEY_C"}), Remap({"KEY_B"}, {"KEY_A"}),
                Remap({}, {"KEY_C"})}

PureRuleLists == UNION {[1..n -> PureRules] : n \in 0..MaxRules}

\* The arguments of the resolution functions: any rule list and any pair of
\* held sets.
InitPure ==
    /\ mappings \in PureRuleLists
    /\ input_state \in SUBSET Keys
    /\ output_keys \in SUBSET Keys
    /\ incoming_event = NoEvent
    /\ outgoing_events = <<>>
    /\ trace = <<>>
    /\ found = NotFound
    /\ desired_keys = NotApplied
    /\ DriverOff

NotCalled ==
    outgoing_events = <<>> /\ found = NotFound /\ desired_keys = NotApplied

\* One call of compute_keys_based_on_state on the arguments.
CallCompute ==
    /\ NotCalled
    /\ \E time \in Times :
         outgoing_events' \in
             compute_keys_based_on_state(mappings, input_state, output_keys, time)
    /\ UNCHANGED <<input_state, output_keys, mappings, incoming_event, trace,
                   found, desired_keys, driver_vars>>

\* One call of lookup_mapping on the arguments and a key code.
CallLookup ==
    /\ NotCalled
    /\ \E code \in Keys :
         found' = [code |-> code, rule |-> lookup_mapping(mappings, input_state, code)]
    /\ UNCHANGED <<input_state, output_keys, mappings, incoming_event,
                   outgoing_events, trace, desired_keys, driver_vars>>

\* One call of apply_mapping_to_held_keys on the arguments.
CallApply ==
    /\ NotCalled
    /\ desired_keys' = apply_mapping_to_held_keys(mappings, input_state)
    /\ UNCHANGED <<input_state, output_keys, mappings, incoming_event,
                   outgoing_events, trace, found, driver_vars>>

NextPure == CallCompute \/ CallLookup \/ CallApply

SpecPure == InitPure /\ [][NextPure]_vars

(* ---------------------------------------------------------------------- *)
(* Properties                                                              *)
(* ---------------------------------------------------------------------- *)

IsPress(e) == e.key_event_type = Press
IsRelease(e) == e.key_event_type = Release
IsRepeat(e) == e.key_event_type = Repeat
IsUnknown(e) == e.key_event_type.tag = "Unknown"

\* The batch holds an event of this key and kind.
Emits(events, ev_key, key_event_type) ==
    \E i \in 1..Len(events) :
        events[i].ev_key = ev_key /\ events[i].key_event_type = key_event_type

\* The position of that event in the batch (0 when there is none).
PositionOf(events, ev_key, key_event_type) ==
    IF Emits(events, ev_key, key_event_type)
    THEN CHOOSE i \in 1..Len(events) :
            events[i].ev_key = ev_key /\ events[i].key_event_type = key_event_type
    ELSE 0

CtrlRule == Remap({"KEY_A", "KEY_LEFTCTRL"}, {"KEY_B"})
PlainRule == Remap({"KEY_A"}, {"KEY_B"})

\* C1 (state convergence): after every insert of a run of Press and Release
\* events from a fresh Machine, output_keys is apply_mapping_to_held_keys of
\* input_state.
C1_StateConvergence ==
    output_keys = apply_mapping_to_held_keys(mappings, input_state)

\* A rule has applied: the virtual keys differ from the physical ones.
C1_Witness ==
    /\ incoming_event # NoEvent
    /\ output_keys # input_state
    /\ output_keys # {}
    /\ output_keys = apply_mapping_to_held_keys(mappings, input_state)

\* C2 (batch ordering): in the batch returned for a Press or a Release, no
\* Press precedes a Release, no modifier Release precedes a non-modifier
\* Release, and no non-modifier Press precedes a modifier Press.
C2_BatchOrdering ==
    (IsPress(incoming_event) \/ IsRelease(incoming_event)) =>
        \A i, j \in 1..Len(outgoing_events) :
            i < j =>
                LET a == outgoing_events[i]
                    b == outgoing_events[j]
                IN  /\ IsPress(a) \/ IsRelease(a)
                    /\ ~(IsPress(a) /\ IsRelease(b))
                    /\ ~(/\ IsRelease(a) /\ IsRelease(b)
                         /\ is_modifier(a.ev_key) /\ ~is_modifier(b.ev_key))
                    /\ ~(/\ IsPress(a) /\ IsPress(b)
                         /\ ~is_modifier(a.ev_key) /\ is_modifier(b.ev_key))

\* A batch that releases a non-modifier and a modifier and presses a key.
C2_Witness ==
    /\ IsRelease(incoming_event)
    /\ \E i, j, k \in 1..Len(outgoing_events) :
        /\ IsRelease(outgoing_events[i]) /\ ~is_modifier(outgoing_events[i].ev_key)
        /\ IsRelease(outgoing_events[j]) /\ is_modifier(outgoing_events[j].ev_key)
        /\ IsPress(outgoing_events[k])

\* The step is the insert of Release(KEY_LEFTCTRL) into a Machine with the
\* single rule {KEY_A, KEY_LEFTCTRL} -> {KEY_B} that holds both trigger keys.
C3_ReleaseOfModifier ==
    /\ mappings = <<CtrlRule>>
    /\ {"KEY_A", "KEY_LEFTCTRL"} \subseteq input_state
    /\ IsRelease(incoming_event')
    /\ incoming_event'.ev_key = "KEY_LEFTCTRL"

\* C3 as stated (no bare key on modifier release): that insert emits no
\* Press of the trigger key KEY_A.
C3_NoBareKey ==
    [][C3_ReleaseOfModifier => ~Emits(outgoing_events', "KEY_A", Press)]_vars

\* C3 as amended: that insert does emit a Press of the trigger key KEY_A.
\* Its batch releases KEY_LEFTCTRL, after releasing KEY_B unless KEY_B is
\* itself physically held, and ends with the only Press of the batch, that
\* of KEY_A.
C3_BareKeyAfterReleases ==
    [][C3_ReleaseOfModifier =>
        LET events == outgoing_events'
            last == events[Len(events)]
        IN  /\ Len(events) >= 2
            /\ last = EvKeyEvent(incoming_event'.time, "KEY_A", Press)
            /\ \A i \in 1..(Len(events) - 1) : IsRelease(events[i])
            /\ Emits(events, "KEY_LEFTCTRL", Release)
            /\ "KEY_B" \notin input_state =>
                 /\ Emits(events, "KEY_B", Release)
                 /\ PositionOf(events, "KEY_B", Release)
                      < PositionOf(events, "KEY_LEFTCTRL", Release)]_vars

\* Release(KEY_LEFTCTRL) was inserted with KEY_A still held and the batch
\* released the remapped KEY_B and pressed KEY_A.
C3_Witness ==
    /\ mappings = <<CtrlRule>>
    /\ IsRelease(incoming_event)
    /\ incoming_event.ev_key = "KEY_LEFTCTRL"
    /\ "KEY_A" \in input_state
    /\ Emits(outgoing_events, "KEY_B", Release)
    /\ Emits(outgoing_events, "KEY_LEFTCTRL", Release)
    /\ Emits(outgoing_events, "KEY_A", Press)

\* The recorded run starts with these events (key and kind), at any times.
RunStarts(kinds) ==
    /\ Len(trace) >= Len(kinds)
    /\ \A i \in 1..Len(kinds) :
        /\ trace[i].incoming.ev_key = kinds[i][1]
        /\ trace[i].incoming.key_event_type = kinds[i][2]

\* Call i of the recorded run returned exactly one event, of this key and
\* kind, with the timestamp of the call's incoming event.
Returned(i, ev_key, key_event_type) ==
    trace[i].outgoing = <<EvKeyEvent(trace[i].incoming.time, ev_key, key_event_type)>>

C4_Run ==
    <<<<"KEY_LEFTCTRL", Press>>, <<"KEY_A", Press>>,
      <<"KEY_A", Release>>, <<"KEY_LEFTCTRL", Release>>>>

\* C4 (modifier-combo scenario): with the single rule
\* {KEY_A, KEY_LEFTCTRL} -> {KEY_B}, the run Press(KEY_LEFTCTRL), Press(KEY_A),
\* Release(KEY_A), Release(KEY_LEFTCTRL) from a fresh Machine returns
\* [Press(KEY_LEFTCTRL)], [Press(KEY_B)], [Release(KEY_B)],
\* [Release(KEY_LEFTCTRL)], each with the timestamp of its incoming event.
C4_ModifierCombo ==
    (mappings = <<CtrlRule>> /\ RunStarts(C4_Run)) =>
        /\ Returned(1, "KEY_LEFTCTRL", Press)
        /\ Returned(2, "KEY_B", Press)
        /\ Returned(3, "KEY_B", Release)
        /\ Returned(4, "KEY_LEFTCTRL", Release)

\* The run of C4 has been made, with timestamps that are not all the same.
C4_Witness ==
    /\ mappings = <<CtrlRule>>
    /\ RunStarts(C4_Run)
    /\ trace[1].incoming.time # trace[2].incoming.time
    /\ trace[3].incoming.time # trace[4].incoming.time
    /\ input_state = {}
    /\ output_keys = {}

\* The step inserts a Press of a key that is not held or a Release of a key
\* that is held.
C5_ChangesInputState ==
    \/ IsPress(incoming_event') /\ incoming_event'.ev_key \notin input_state
    \/ IsRelease(incoming_event') /\ incoming_event'.ev_key \in input_state

C6_Run == <<<<"KEY_A", Press>>, <<"KEY_A", Release>>>>

\* C6 (simple remap end to end): with the single rule {KEY_A} -> {KEY_B},
\* Press(KEY_A) at t1 then Release(KEY_A) at t2 from a fresh Machine return
\* [Press(KEY_B) at t1] and [Release(KEY_B) at t2]; KEY_A is never emitted.
C6_SimpleRemap ==
    (mappings = <<PlainRule>> /\ RunStarts(C6_Run)) =>
        /\ Returned(1, "KEY_B", Press)
        /\ Returned(2, "KEY_B", Release)
        /\ \A i \in 1..2 : \A j \in 1..Len(trace[i].outgoing) :
              trace[i].outgoing[j].ev_key # "KEY_A"

\* The run of C6 has been made, at two different times.
C6_Witness ==
    /\ mappings = <<PlainRule>>
    /\ Len(trace) = 2
    /\ RunStarts(C6_Run)
    /\ trace[1].incoming.time # trace[2].incoming.time

\* C7 (repeat handling): an insert of a Repeat for a key that lookup_mapping
\* finds a rule for returns one Repeat per key of the rule's output and
\* nothing else, each with the incoming timestamp; when no rule is found it
\* returns exactly the event inserted.
C7_RepeatHandling ==
    [][IsRepeat(incoming_event') =>
        LET rule == lookup_mapping(mappings, input_state, incoming_event'.ev_key)
            events == outgoing_events'
        IN  IF rule # 0
            THEN /\ Len(events) = Cardinality(mappings[rule].output)
                 /\ {events[i].ev_key : i \in 1..Len(events)} = mappings[rule].output
                 /\ \A i \in 1..Len(events) :
                      /\ IsRepeat(events[i])
                      /\ events[i].time = incoming_event'.time
            ELSE events = <<incoming_event'>>]_vars

\* A Repeat of a held trigger key came back as Repeats of two output keys,
\* neither of them the key of the incoming event.
C7_Witness ==
    /\ IsRepeat(incoming_event)
    /\ Len(outgoing_events) = 2
    /\ \A i \in 1..2 :
        /\ IsRepeat(outgoing_events[i])
        /\ outgoing_events[i].ev_key # incoming_event.ev_key

\* Rule i qualifies for the lookup: its input holds the code and is held.
Qualifies(i, code) ==
    /\ code \in mappings[i].input
    /\ mappings[i].input \subseteq input_state

\* C8 (first-match repeat lookup): lookup_mapping returns the lowest-index
\* rule whose input contains the code and is a subset of the held keys, and
\* returns no rule exactly when no rule qualifies.
C8_FirstMatch ==
    found # NotFound =>
        /\ found.rule # 0 =>
             /\ found.rule \in 1..Len(mappings)
             /\ Qualifies(found.rule, found.code)
             /\ \A j \in 1..(found.rule - 1) : ~Qualifies(j, found.code)
        /\ found.rule = 0 <=>
             ~\E i \in 1..Len(mappings) : Qualifies(i, found.code)

\* The first rule was returned although a later rule with a larger input
\* qualifies too.
C8_Witness ==
    /\ found.rule = 1
    /\ Len(mappings) >= 2
    /\ Qualifies(2, found.code)
    /\ Cardinality(mappings[2].input) > Cardinality(mappings[1].input)

\* C9 (unknown passthrough): an insert of an Unknown event returns exactly
\* the event inserted, whatever the rules and the state.
C9_UnknownPassthrough ==
    IsUnknown(incoming_event) => outgoing_events = <<incoming_event>>

\* An Unknown event came back unchanged for a key that a rule, whose input
\* is held, remaps.
C9_Witness ==
    /\ IsUnknown(incoming_event)
    /\ outgoing_events = <<incoming_event>>
    /\ lookup_mapping(mappings, input_state, incoming_event.ev_key) # 0

\* C10 (no duplicate emission): a batch of compute_keys_based_on_state never
\* holds two events for the same key, so never a Release and a Press of one
\* key.
C10_NoDuplicateEmission ==
    \A i, j \in 1..Len(outgoing_events) :
        i # j => outgoing_events[i].ev_key # outgoing_events[j].ev_key

\* A batch with a Release and a Press, computed while a key that stays
\* desired is already held on the output.
C10_Witness ==
    /\ mappings # <<>>
    /\ \E i, j \in 1..Len(outgoing_events) :
        IsRelease(outgoing_events[i]) /\ IsPress(outgoing_events[j])
    /\ output_keys \cap apply_mapping_to_held_keys(mappings, input_state) # {}

\* C11 (release of an untracked key is ignored): an insert of a Release of
\* a key that is not in input_state leaves input_state unchanged, returns
\* no event and leaves output_keys unchanged.
C11_UntrackedReleaseIgnored ==
    [][(IsRelease(incoming_event') /\ incoming_event'.ev_key \notin input_state) =>
        /\ input_state' = input_state
        /\ outgoing_events' = <<>>
        /\ output_keys' = output_keys]_vars

\* The held set after the Press and Release events of a batch are applied
\* to it: what a device that is sent the batch reports down afterwards.
ReportedDown(down, events) ==
    LET after[k \in 0..Len(events)] ==
            IF k = 0 THEN down
            ELSE IF IsPress(events[k]) THEN after[k - 1] \cup {events[k].ev_key}
            ELSE IF IsRelease(events[k]) THEN after[k - 1] \ {events[k].ev_key}
            ELSE after[k - 1]
    IN  after[Len(events)]

\* C12 (the held sets mirror the devices): output_keys is the set of keys
\* whose last emitted Press or Release is a Press, and input_state the set
\* of keys whose last incoming Press or Release is a Press. Both sets start
\* empty with nothing emitted, so this is: every insert takes each set to
\* what the Press and Release events of its batch (of its incoming event)
\* make of it.
C12_HeldSetsMirrorDevices ==
    [][/\ output_keys' = ReportedDown(output_keys, outgoing_events')
       /\ input_state' = ReportedDown(input_state, <<incoming_event'>>)]_vars

(* ---------------------------------------------------------------------- *)
(* The conversion between raw values and key event types                   *)
(* ---------------------------------------------------------------------- *)

\* A raw key event is converted as run_forever converts the events it
\* reads (from_value) and the result is converted back as the events it
\* writes are (as_input_event, value).
Convert ==
    /\ \E ev_key \in Keys, time \in Times, value_ \in I32Values :
        /\ raw_event' = InputEvent(time, EV_KEY(ev_key), value_)
        /\ incoming_event' = EvKeyEvent(time, ev_key, from_value(value_))
    /\ written' = <<as_input_event(incoming_event')>>
    /\ UNCHANGED <<input_state, output_keys, mappings, outgoing_events, trace,
                   found, desired_keys, pc, input_device, output_device>>

NextConvert == Convert

SpecConvert == Init /\ [][NextConvert]_vars

\* C13 (the transition-kind encoding round-trips): value(from_value(n)) = n
\* for every raw value n, from_value maps 0 to Release, 1 to Press, 2 to
\* Repeat and any other n to Unknown(n), and from_value(value(k)) = k for
\* the three named kinds.
C13_RoundTrip ==
    raw_event # NoInputEvent =>
        LET n == raw_event.value
            kind == incoming_event.key_event_type
        IN  /\ written[1].value = n
            /\ n = 0 => kind = Release
            /\ n = 1 => kind = Press
            /\ n = 2 => kind = Repeat
            /\ n \notin {0, 1, 2} => kind = [tag |-> "Unknown", n |-> n]
            /\ kind.tag # "Unknown" =>
                 /\ kind \in {Release, Press, Repeat}
                 /\ from_value(value(kind)) = kind

\* The least 32-bit value was converted to an Unknown and back.
C13_Witness ==
    /\ raw_event.value = I32Min
    /\ incoming_event.key_event_type.tag = "Unknown"
    /\ written[1].value = raw_event.value

(* ---------------------------------------------------------------------- *)
(* Properties of the desired-state synthesis                               *)
(* ---------------------------------------------------------------------- *)

Modifiers(keys) == {key \in keys : is_modifier(key)}

ModifierOutputRule == Remap({"KEY_A"}, {"KEY_LEFTCTRL"})

\* Some rule of the list has an output that is made of modifiers only.
HasPureModifierOutput ==
    \E i \in 1..Len(mappings) :
        mappings[i].output # {} /\ \A o \in mappings[i].output : is_modifier(o)

WorkingSet(rules, held) ==
    [k \in 0..Len(rules) |->
        LET W[n \in 0..k] ==
                IF n = 0 THEN held
                ELSE IF \A key \in rules[n].input : key \in W[n - 1]
                     THEN {key \in W[n - 1] :
                              key \notin rules[n].input \/ is_modifier(key)}
                          \cup {key \in rules[n].output : ~is_modifier(key)}
                     ELSE W[n - 1]
        IN  W[k]]

ChainFirst == <<Remap({"KEY_A"}, {"KEY_B"}), Remap({"KEY_B"}, {"KEY_C"})>>
ChainLast == <<Remap({"KEY_B"}, {"KEY_C"}), Remap({"KEY_A"}, {"KEY_B"})>>

WithoutRule(rules, j) ==
    SubSeq(rules, 1, j - 1) \o SubSeq(rules, j + 1, Len(rules))

\* Rules i < j whose inputs are both held and share a key.
Overlapping(i, j) ==
    /\ i < j
    /\ mappings[i].input \subseteq input_state
    /\ mappings[j].input \subseteq input_state
    /\ mappings[i].input \cap mappings[j].input # {}

Shadows(i, j) ==
    /\ Overlapping(i, j)
    /\ mappings[i].input \subseteq
           apply_mapping_to_held_keys(SubSeq(mappings, 1, i - 1), input_state)
    /\ \E s \in mappings[i].input \cap mappings[j].input :
          /\ ~is_modifier(s)
          /\ \A k \in i..(j - 1) : s \notin mappings[k].output

NoRuleMatches ==
    \A i \in 1..Len(mappings) : ~(mappings[i].input \subseteq input_state)

\* C18 (unmatched keys pass through): when no rule's input is a subset of
\* the held keys (the empty rule list and partially held multi-key inputs
\* included), apply_mapping_to_held_keys returns the held keys unchanged.
C18_UnmatchedPassThrough ==
    (desired_keys # NotApplied /\ NoRuleMatches) => desired_keys = input_state

\* A rule with two input keys, one of them held, was passed over.
C18_Witness ==
    /\ desired_keys # NotApplied
    /\ NoRuleMatches
    /\ \E i \in 1..Len(mappings) :
          /\ Cardinality(mappings[i].input) = 2
          /\ Cardinality(mappings[i].input \cap input_state) = 1
    /\ desired_keys = input_state


(* ---------------------------------------------------------------------- *)
(* The driver                                                              *)
(* ---------------------------------------------------------------------- *)

\* The key codes of the device run_forever can be started on, and the rule
\* lists it can be started with.
Hardware == {{"KEY_LEFTCTRL", "KEY_A", "KEY_B"}, {"KEY_LEFTCTRL", "KEY_A"}}

DriverMappings ==
    {<<>>,
     <<Remap({"KEY_A"}, {"KEY_B"})>>,
     <<Remap({"KEY_A", "KEY_LEFTCTRL"}, {"KEY_B"}), Remap({"KEY_A"}, {"KEY_B"})>>}

\* The raw values of key events and of the other events read.
RawKeyValues == {value(Release), value(Press), value(Repeat)} \cup UnknownValues
RawOtherValues == {0, 4}

\* run_forever is called with a rule list; the Machine it builds once the
\* devices are set up starts from Machine::new.
InitDriver ==
    /\ \E mappings_ \in DriverMappings : new(mappings_)
    /\ incoming_event = NoEvent
    /\ outgoing_events = <<>>
    /\ trace = <<>>
    /\ found = NotFound
    /\ desired_keys = NotApplied
    /\ pc = "start"
    /\ input_device = {}
    /\ output_device = {}
    /\ raw_event = NoInputEvent
    /\ written = <<>>

machine_vars ==
    <<input_state, output_keys, mappings, incoming_event, outgoing_events>>

\* EvdevDevices::create_and_grab_devices: the UInputDevice is created from
\* the input Device as it is at that moment, and carries its key codes.
create_and_grab_devices ==
    /\ pc = "start"
    /\ \E codes \in Hardware :
          /\ input_device' = codes
          /\ output_device' = codes
    /\ pc' = "created"
    /\ UNCHANGED <<machine_vars, trace, found, desired_keys, raw_event, written>>

\* EvdevDevices::enable_key_codes_in_mapping: every output key of every
\* rule is enabled on the input Device; then the read loop is entered.
enable_key_codes_in_mapping ==
    /\ pc = "created"
    /\ input_device' =
           input_device \cup UNION {mappings[i].output : i \in 1..Len(mappings)}
    /\ pc' = "loop"
    /\ UNCHANGED <<machine_vars, trace, found, desired_keys,
                   output_device, raw_event, written>>

\* Opening, creating, grabbing or enabling fails: run_forever returns the
\* error.
SetupFails ==
    /\ pc \in {"start", "created"}
    /\ pc' = "failed"
    /\ UNCHANGED <<machine_vars, trace, found, desired_keys,
                   input_device, output_device, raw_event, written>>

\* Mutant of generate_sync_event: nothing is written.
generate_sync_event_skipped(time) == <<>>

\* EvdevDevices::generate_sync_event, as the events it writes.
generate_sync_event(time) == <<InputEvent(time, SYN_REPORT, 0)>>

\* The writes of the loop body for the batch the Machine returned.
write_events(converted_events_to_write) ==
    [i \in 1..Len(converted_events_to_write) |->
        as_input_event(converted_events_to_write[i])]

\* One turn of the loop on a key event: the event goes through the Machine,
\* the returned events are written and the sync event after them.
ReadKeyEvent ==
    /\ pc = "loop"
    /\ \E key \in input_device, time \in Times, value_ \in RawKeyValues :
          LET event == InputEvent(time, EV_KEY(key), value_)
          IN  /\ insert(EvKeyEvent(event.time, key, from_value(event.value)))
              /\ raw_event' = event
              /\ written' = write_events(outgoing_events')
                                \o generate_sync_event(event.time)
    /\ UNCHANGED <<trace, found, desired_keys, pc, input_device, output_device>>

\* One turn of the loop on an event that is not a key event: it is written
\* as it is and the Machine is not called.
ReadOtherEvent ==
    /\ pc = "loop"
    /\ \E time \in Times, event_code \in {SYN_REPORT, MSC_SCAN},
          value_ \in RawOtherValues :
          LET event == InputEvent(time, event_code, value_)
          IN  /\ raw_event' = event
              /\ written' = <<event>>
    /\ UNCHANGED <<machine_vars, trace, found, desired_keys,
                   pc, input_device, output_device>>

\* A turn of the loop on a key event in which a write fails: the writes
\* before it were made, run_forever returns the error.
WriteFails ==
    /\ pc = "loop"
    /\ \E key \in input_device, time \in Times, value_ \in RawKeyValues :
          LET event == InputEvent(time, EV_KEY(key), value_)
          IN  /\ insert(EvKeyEvent(event.time, key, from_value(event.value)))
              /\ raw_event' = event
              /\ \E n \in 0..Len(outgoing_events') :
                    written' = SubSeq(write_events(outgoing_events'), 1, n)
    /\ pc' = "failed"
    /\ UNCHANGED <<trace, found, desired_keys, input_device, output_device>>

\* next_event fails or returns ReadStatus::Sync: run_forever returns the
\* error.
ReadFails ==
    /\ pc = "loop"
    /\ pc' = "failed"
    /\ raw_event' = NoInputEvent
    /\ written' = <<>>
    /\ UNCHANGED <<machine_vars, trace, found, desired_keys,
                   input_device, output_device>>

NextDriver ==
    \/ create_and_grab_devices
    \/ enable_key_codes_in_mapping
    \/ SetupFails
    \/ ReadKeyEvent
    \/ ReadOtherEvent
    \/ WriteFails
    \/ ReadFails

SpecDriver == InitDriver /\ [][NextDriver]_vars

(* ---------------------------------------------------------------------- *)
(* Properties of the driver                                                *)
(* ---------------------------------------------------------------------- *)

\* C19 (the output device supports the remapped keys): when run_forever
\* enters its read loop, every output key of every rule is enabled on the
\* UInputDevice.
C19_OutputSupportsRemappedKeys ==
    pc = "loop" =>
        \A i \in 1..Len(mappings) : mappings[i].output \subseteq output_device

IsKeyEvent(event) == event.event_code.type = "EV_KEY"

\* The events the Machine returned for the raw event last read: none when
\* the event was not handed to it.
Returned_For(event) == IF IsKeyEvent(event) THEN outgoing_events ELSE <<>>

\* The written events are the batch, event for event and in its order,
\* followed by one SYN_REPORT with the time of the raw event.
BatchThenSync(batch) ==
    /\ Len(written) = Len(batch) + 1
    /\ \A i \in 1..Len(batch) :
          /\ written[i].time = batch[i].time
          /\ written[i].event_code = EV_KEY(batch[i].ev_key)
          /\ from_value(written[i].value) = batch[i].key_event_type
    /\ written[Len(written)].event_code = SYN_REPORT
    /\ written[Len(written)].time = raw_event.time
    /\ written[Len(written)].value = 0

\* C20 as stated (driver batch and sync): for each raw event read by the
\* loop, the driver writes the events returned for it in the returned
\* order and then exactly one SYN_REPORT of its own.
C20_SyncAfterEveryRawEvent ==
    (pc = "loop" /\ raw_event # NoInputEvent)
        => BatchThenSync(Returned_For(raw_event))

\* C20 (amended): for each raw key event read by the loop and processed
\* without a device error, the driver writes the events the Machine
\* returned for it in the returned order and then exactly one SYN_REPORT of
\* its own, whether the batch is empty or not; a raw event that is not a
\* key event is written unchanged and no SYN_REPORT of the driver follows.
C20_SyncAfterEveryKeyEvent ==
    (pc = "loop" /\ raw_event # NoInputEvent) =>
        /\ IsKeyEvent(raw_event) =>
              /\ incoming_event.ev_key = raw_event.event_code.code
              /\ incoming_event.time = raw_event.time
              /\ BatchThenSync(outgoing_events)
        /\ ~IsKeyEvent(raw_event) => written = <<raw_event>>

\* A key event with an empty batch was followed by the sync event alone,
\* while a key was held on the output.
C20_Witness ==
    /\ pc = "loop"
    /\ IsKeyEvent(raw_event)
    /\ outgoing_events = <<>>
    /\ Len(written) = 1
    /\ written[1].event_code = SYN_REPORT
    /\ output_keys # {}


(* ---------------------------------------------------------------------- *)
(* Properties of insert in runs of events of every kind                    *)
(* ---------------------------------------------------------------------- *)

\* C21 (convergence is restored by any Press or Release): whatever events
\* of the four kinds came before, right after the insert of a Press or of a
\* Release output_keys is apply_mapping_to_held_keys of input_state.
C21_PressReleaseRestoresConvergence ==
    (IsPress(incoming_event) \/ IsRelease(incoming_event)) =>
        output_keys = apply_mapping_to_held_keys(mappings, input_state)

\* With no rule at all, a Press made the Machine release another key: one
\* that only a passed through Repeat had put into output_keys.
C21_Witness ==
    /\ mappings = <<>>
    /\ IsPress(incoming_event)
    /\ \E i \in 1..Len(outgoing_events) :
          /\ IsRelease(outgoing_events[i])
          /\ outgoing_events[i].ev_key # incoming_event.ev_key
    /\ output_keys = input_state


\* Every rule of the list has an input key.
TriggersNonEmpty == \A i \in 1..Len(mappings) : mappings[i].input # {}

\* C22 (no stuck keys): with rules whose inputs are all non-empty, right
\* after the insert of a Release that leaves input_state empty, output_keys
\* is empty, whatever events of any kind came before.
C22_NoStuckKeys ==
    (TriggersNonEmpty /\ IsRelease(incoming_event) /\ input_state = {})
        => output_keys = {}

\* The last held key was released and the batch released two keys that a
\* rule had pressed for it.
C22_Witness ==
    /\ TriggersNonEmpty
    /\ mappings # <<>>
    /\ IsRelease(incoming_event)
    /\ input_state = {}
    /\ output_keys = {}
    /\ Len(outgoing_events) = 2
    /\ \A i \in 1..2 :
          /\ IsRelease(outgoing_events[i])
          /\ outgoing_events[i].ev_key # incoming_event.ev_key


\* A Repeat of a key that is held, as a keyboard sends it.
InsertRepeatOfHeld ==
    \E ev_key \in input_state, time \in Times :
        insert(EvKeyEvent(time, ev_key, Repeat))
        /\ UNCHANGED <<trace, found, desired_keys, driver_vars>>

\* Any sequence of events of the four kinds in which every Repeat is for a
\* key in input_state.
NextRepeatOfHeld ==
    InsertPress \/ InsertRelease \/ InsertRepeatOfHeld \/ InsertUnknown

SpecRepeatOfHeld == Init /\ [][NextRepeatOfHeld]_vars

\* C23 (Repeats only for virtually held keys): in a run from a fresh
\* Machine in which every Repeat inserted is for a key in input_state,
\* every Repeat an insert returns is for a key that is in output_keys
\* before that insert.
C23_RepeatsOnlyForOutputKeys ==
    [][\A i \in 1..Len(outgoing_events') :
          IsRepeat(outgoing_events'[i])
              => outgoing_events'[i].ev_key \in output_keys]_vars


\* C24 (frame of the events that are no transition): an insert of a Repeat
\* or of an Unknown event leaves input_state unchanged, an insert of an
\* Unknown event leaves output_keys unchanged as well, and no insert
\* changes mappings.
C24_FrameOfNonTransitions ==
    [][/\ (IsRepeat(incoming_event') \/ IsUnknown(incoming_event'))
              => input_state' = input_state
       /\ IsUnknown(incoming_event') => output_keys' = output_keys
       /\ mappings' = mappings]_vars

\* A Repeat was inserted for a key that is not held, into a Machine with
\* rules and held keys, and the key is still not in input_state.
C24_Witness ==
    /\ mappings # <<>>
    /\ IsRepeat(incoming_event)
    /\ incoming_event.ev_key \notin input_state
    /\ input_state # {}
    /\ output_keys # {}

====
